---- MODULE Spec2Model ----
(***************************************************************************)
(* Logic-analyzer capture tools of intel-8008-vhdl: the state decoder, the *)
(* data-byte decoder and the three passes that scan a capture for SYNC     *)
(* rising edges (analyze_glitches, trace_execution, trace_states).         *)
(*                                                                         *)
(* Python values are represented as follows.                               *)
(*   str            a sequence of one-character strings: ' 0' is <<" ","0">> *)
(*   None (for str) NoneStr, which no str of the model equals              *)
(*   int or None    <<n>> for the int n, <<>> for None                     *)
(*   a raised exception: a record with raised = TRUE                       *)
(***************************************************************************)
EXTENDS Integers, Sequences, FiniteSets, TLC

VARIABLES
    tool,      \* which program runs: "decode" stands for direct calls of the decoders
    pc,        \* "loop" while the for loop runs, "done" after it, "error" when an exception ended the pass
    err,       \* name of the exception that ended the pass, "" if none
    \* direct calls of the decoders
    op, arg, result,
    \* loop state shared by the three passes
    i,         \* index (0-based) of the next row of the for loop
    row,       \* the row of the latest iteration, NoRow before the first
    fired,     \* the latest iteration took the "sync == '1' and prev_sync == '0'" branch
    prev_sync, prev_state,
    \* analyze_glitches
    rows, prev_data, prev_cp_d_en, current_state_start, state_data_values,
    glitch_count, glitches, cp_glitches,
    \* trace_execution
    max_instructions, after_t1i, instr_num, current_instr, emitted, t1i_lines,
    started,   \* lines of the T1 transitions seen while armed
    unordered, \* some row processed so far had a timestamp below its predecessor's
    \* trace_states
    start_us, end_us, state_num, cycle_num, out,
    cycle_of,  \* cycle_num after each processed (in-window) sample
    starts,    \* for each processed sample: it is a SYNC 0->1 edge in state T1 or T1I
    \* hex_to_mem
    hex_lines, \* the lines of the .hex file read so far
    hex_records, \* for each line read, the record it was written from
    memory, max_addr, mem_out,
    \* find_int_edges
    prev_int, line_num, int_high_times, edge_rows

decodeVars == <<op, arg, result>>
loopVars   == <<i, row, fired, prev_sync, prev_state>>
glitchVars == <<rows, prev_data, prev_cp_d_en, current_state_start, state_data_values,
                glitch_count, glitches, cp_glitches>>
execVars   == <<max_instructions, after_t1i, instr_num, current_instr, emitted, t1i_lines,
                started, unordered>>
statesVars == <<start_us, end_us, state_num, cycle_num, out, cycle_of, starts>>
hexVars    == <<hex_lines, hex_records, memory, max_addr, mem_out>>
edgesVars  == <<prev_int, line_num, int_high_times, edge_rows>>
vars == <<tool, pc, err, decodeVars, loopVars, glitchVars, execVars, statesVars, hexVars,
          edgesVars>>

-----------------------------------------------------------------------------
(* Values *)

NoneStr == <<"None">>
NoneInt == <<>>
Some(n) == <<n>>
NoRow == [absent |-> TRUE]

Whitespace == {" "}

RECURSIVE lstrip(_)
lstrip(s) == IF s # <<>> /\ Head(s) \in Whitespace THEN lstrip(Tail(s)) ELSE s

RECURSIVE rstrip(_)
rstrip(s) == IF s # <<>> /\ s[Len(s)] \in Whitespace THEN rstrip(SubSeq(s, 1, Len(s) - 1)) ELSE s

\* str.strip()
strip(s) == rstrip(lstrip(s))

\* the capture writes every value after the comma with a leading blank
Cell(c) == <<" ", c>>

\* the text of a timestamp of n seconds, and the empty text
TimeText(n) == <<n>>
EmptyText == <<>>

\* float(text): the number of seconds of the text; float('') raises ValueError
ParseFloat(t) == IF t = EmptyText THEN [raised |-> TRUE, val |-> 0]
                 ELSE [raised |-> FALSE, val |-> t[1]]

\* time_us = time_s * 1e6
TimeUs(time_s) == time_s * 1000000

-----------------------------------------------------------------------------
(* State decoder *)

STATES ==
    (<<"0", "1", "0">> :> <<"T1">>) @@
    (<<"1", "0", "0">> :> <<"T2">>) @@
    (<<"0", "0", "1">> :> <<"T3">>) @@
    (<<"1", "1", "0">> :> <<"T1I">>) @@
    (<<"0", "1", "1">> :> <<"STOPPED">>) @@
    (<<"1", "1", "1">> :> <<"T4">>) @@
    (<<"1", "0", "1">> :> <<"T5">>) @@
    (<<"0", "0", "0">> :> <<"TWAIT">>)

StateBits(r) == strip(r.S2) \o strip(r.S1) \o strip(r.S0)

\* a plausible slip: S0 read as the first bit
get_state_reversed(r) ==
    LET bits == strip(r.S0) \o strip(r.S1) \o strip(r.S2)
    IN  IF bits \in DOMAIN STATES THEN STATES[bits] ELSE <<"UNKNOWN", bits>>

\* STATES.get(bits, f'UNKNOWN({bits})')
get_state(r) ==
    LET bits == StateBits(r)
    IN  IF bits \in DOMAIN STATES THEN STATES[bits] ELSE <<"UNKNOWN", bits>>

\* trace_states.py: STATES.get(bits, f'UNK({bits})')
get_state_ts(r) ==
    LET bits == StateBits(r)
    IN  IF bits \in DOMAIN STATES THEN STATES[bits] ELSE <<"UNK", bits>>

-----------------------------------------------------------------------------
(* Data-byte decoder *)

\* ''.join([row[f' D{i}'].strip() for i in range(7, -1, -1)]): D7 first
RECURSIVE JoinFrom(_, _)
JoinFrom(d, k) == IF k < 0 THEN <<>> ELSE strip(d[k]) \o JoinFrom(d, k - 1)

DataBits(r) == JoinFrom(r.D, 7)

RECURSIVE BinValue(_)
BinValue(bits) == IF bits = <<>> THEN 0
                  ELSE 2 * BinValue(SubSeq(bits, 1, Len(bits) - 1))
                       + (IF bits[Len(bits)] = "1" THEN 1 ELSE 0)

\* int(bits, 2) on the characters the model draws: a non-empty string of 0s and 1s
\* is its binary value, anything else raises ValueError
IntBase2(bits) ==
    IF bits # <<>> /\ \A k \in 1..Len(bits) : bits[k] \in {"0", "1"}
    THEN [raised |-> FALSE, val |-> Some(BinValue(bits))]
    ELSE [raised |-> TRUE, val |-> NoneInt]

RECURSIVE BinValueLsbFirst(_)
BinValueLsbFirst(bits) == IF bits = <<>> THEN 0
                          ELSE (IF Head(bits) = "1" THEN 1 ELSE 0) + 2 * BinValueLsbFirst(Tail(bits))

\* a plausible slip: the joined string read with D7 as the least significant bit
get_data_byte_lsb_first(r) ==
    LET bits == DataBits(r)
    IN  IF \A k \in 1..Len(bits) : bits[k] # "?"
        THEN (IF IntBase2(bits).raised THEN IntBase2(bits)
              ELSE [raised |-> FALSE, val |-> Some(BinValueLsbFirst(bits))])
        ELSE [raised |-> FALSE, val |-> NoneInt]

\* int(bits, 2) if '?' not in bits else None
get_data_byte(r) ==
    LET bits == DataBits(r)
    IN  IF \A k \in 1..Len(bits) : bits[k] # "?"
        THEN IntBase2(bits)
        ELSE [raised |-> FALSE, val |-> NoneInt]

-----------------------------------------------------------------------------
(* Rows *)

MkRow(t, sync, s2, s1, s0, d, cp, int) ==
    [Time |-> t, SYNC |-> sync, S2 |-> s2, S1 |-> s1, S0 |-> s0, D |-> d,
     CP_D_EN |-> cp, INT |-> int]

\* the eight lines D7..D0 carrying the byte b, D7 the most significant bit
EncodeByte(b) == [k \in 0..7 |-> Cell(IF (b \div (2 ^ k)) % 2 = 1 THEN "1" ELSE "0")]

\* the lines of b with D0 unresolved
Unresolved(b) == [EncodeByte(b) EXCEPT ![0] = Cell("?")]

StateCells(name) ==
    LET bits == CHOOSE b \in DOMAIN STATES : STATES[b] = <<name>>
    IN  [S2 |-> Cell(bits[1]), S1 |-> Cell(bits[2]), S0 |-> Cell(bits[3])]

-----------------------------------------------------------------------------
(* Start values of the variables of each program; a program that does not   *)
(* run keeps them.                                                          *)

DecodeIdle == op = "none" /\ arg = NoRow /\ result = NoRow

LoopStart == /\ i = 0
             /\ row = NoRow
             /\ fired = FALSE
             /\ prev_sync = NoneStr
             /\ prev_state = NoneStr

GlitchStart == /\ rows = <<>>
               /\ prev_data = NoneInt
               /\ prev_cp_d_en = NoneStr
               /\ current_state_start = 0
               /\ state_data_values = <<>>
               /\ glitch_count = 0
               /\ glitches = <<>>
               /\ cp_glitches = <<>>

NoInstr == [t1_line |-> NoneInt, t1_data |-> NoneInt, t3_line |-> NoneInt, t3_data |-> NoneInt]

ExecStart == /\ after_t1i = FALSE
             /\ instr_num = 0
             /\ current_instr = NoInstr
             /\ emitted = <<>>
             /\ t1i_lines = {}
             /\ started = {}
             /\ unordered = FALSE

StatesStart == /\ state_num = 0
               /\ cycle_num = 0
               /\ out = NoRow
               /\ cycle_of = <<>>
               /\ starts = <<>>

\* an empty dict
EmptyDict == [a \in {} |-> 0]

HexStart == /\ hex_lines = <<>>
            /\ hex_records = <<>>
            /\ memory = EmptyDict
            /\ max_addr = 0
            /\ mem_out = <<>>

FirstLineNum == 6

EdgesStart == /\ prev_int = <<"0">>
              /\ line_num = FirstLineNum
              /\ int_high_times = <<>>
              /\ edge_rows = <<>>

-----------------------------------------------------------------------------
(* Direct calls of the decoders, one call per behaviour *)

StateCellChoices == {Cell("0"), Cell("1"), Cell("?")}

\* '0', '1', the unresolved marker, another character, an empty value
DataCellChoices == {Cell("0"), Cell("1"), Cell("?"), Cell("x"), <<" ">>}

Bytes == 0..255

InitDecode == /\ tool = "decode"
              /\ pc = "ready"
              /\ err = ""
              /\ DecodeIdle
              /\ LoopStart /\ GlitchStart /\ ExecStart /\ StatesStart /\ HexStart /\ EdgesStart
              /\ max_instructions = 0 /\ start_us = 0 /\ end_us = 0

Returned == /\ pc' = "returned"
            /\ UNCHANGED <<tool, hexVars, edgesVars, err, loopVars, glitchVars, execVars, statesVars>>

Call_get_state ==
    /\ tool = "decode" /\ pc = "ready"
    /\ \E s2 \in StateCellChoices, s1 \in StateCellChoices, s0 \in StateCellChoices :
          LET r == MkRow(TimeText(0), Cell("0"), s2, s1, s0, EncodeByte(0), Cell("0"), Cell("0"))
          IN  \E which \in {"get_state", "get_state_ts"} :
                 /\ op' = which
                 /\ arg' = r
                 /\ result' = IF which = "get_state" THEN get_state(r) ELSE get_state_ts(r)
    /\ Returned

Call_get_data_byte ==
    /\ tool = "decode" /\ pc = "ready"
    /\ \E d \in [0..7 -> DataCellChoices] :
          LET r == MkRow(TimeText(0), Cell("0"), Cell("0"), Cell("0"), Cell("0"), d, Cell("0"), Cell("0"))
          IN  /\ op' = "get_data_byte"
              /\ arg' = r
              /\ result' = get_data_byte(r)
    /\ Returned

\* a byte written onto the lines, then decoded
Call_encode_decode ==
    /\ tool = "decode" /\ pc = "ready"
    /\ \E b \in Bytes :
          LET r == MkRow(TimeText(0), Cell("0"), Cell("0"), Cell("0"), Cell("0"), EncodeByte(b),
                         Cell("0"), Cell("0"))
          IN  /\ op' = "encode_decode"
              /\ arg' = [byte |-> b, row |-> r]
              /\ result' = get_data_byte(r)
    /\ Returned

\* check_int_timing.py, the decoder of the outer loop: state = 'UNKNOWN', then the
\* if/elif chain over the stripped cells
DecodeOuter(s2, s1, s0) ==
    IF s2 = <<"0">> /\ s1 = <<"1">> /\ s0 = <<"0">> THEN <<"T1">>
    ELSE IF s2 = <<"1">> /\ s1 = <<"0">> /\ s0 = <<"0">> THEN <<"T2">>
    ELSE IF s2 = <<"0">> /\ s1 = <<"0">> /\ s0 = <<"1">> THEN <<"T3">>
    ELSE IF s2 = <<"1">> /\ s1 = <<"1">> /\ s0 = <<"0">> THEN <<"T1I">>
    ELSE IF s2 = <<"1">> /\ s1 = <<"0">> /\ s0 = <<"1">> THEN <<"T5">>
    ELSE IF s2 = <<"1">> /\ s1 = <<"1">> /\ s0 = <<"1">> THEN <<"T4">>
    ELSE <<"UNKNOWN">>

\* check_int_timing.py, the decoder of the look-ahead loop
DecodeInner(s2, s1, s0) ==
    IF s2 = <<"0">> /\ s1 = <<"1">> /\ s0 = <<"0">> THEN <<"T1">>
    ELSE IF s2 = <<"1">> /\ s1 = <<"0">> /\ s0 = <<"0">> THEN <<"T2">>
    ELSE IF s2 = <<"0">> /\ s1 = <<"0">> /\ s0 = <<"1">> THEN <<"T3">>
    ELSE IF s2 = <<"1">> /\ s1 = <<"0">> /\ s0 = <<"1">> THEN <<"T5">>
    ELSE IF s2 = <<"1">> /\ s1 = <<"1">> /\ s0 = <<"0">> THEN <<"T1I">>
    ELSE IF s2 = <<"1">> /\ s1 = <<"1">> /\ s0 = <<"1">> THEN <<"T4">>
    ELSE <<"UNKNOWN">>

\* one line decoded by both inline decoders
Call_inline_decode ==
    /\ tool = "decode" /\ pc = "ready"
    /\ \E s2 \in StateCellChoices, s1 \in StateCellChoices, s0 \in StateCellChoices :
          LET r == MkRow(TimeText(0), Cell("0"), s2, s1, s0, EncodeByte(0), Cell("0"), Cell("0"))
          IN  /\ op' = "inline_decode"
              /\ arg' = r
              /\ result' = [outer |-> DecodeOuter(strip(s2), strip(s1), strip(s0)),
                            inner |-> DecodeInner(strip(s2), strip(s1), strip(s0))]
    /\ Returned

NextDecode == Call_get_state \/ Call_get_data_byte \/ Call_encode_decode
              \/ Call_inline_decode

SpecDecode == InitDecode /\ [][NextDecode]_vars

-----------------------------------------------------------------------------
(* Claims about the decoders *)

\* the table of the specification, section 4.1
TableState(bits) ==
    CASE bits = <<"0", "1", "0">> -> "T1"
      [] bits = <<"1", "1", "0">> -> "T1I"
      [] bits = <<"1", "0", "0">> -> "T2"
      [] bits = <<"0", "0", "1">> -> "T3"
      [] bits = <<"1", "0", "1">> -> "T5"
      [] bits = <<"1", "1", "1">> -> "T4"
      [] bits = <<"0", "0", "0">> -> "TWAIT"
      [] bits = <<"0", "1", "1">> -> "STOPPED"

ArgBits == <<arg.S2[2], arg.S1[2], arg.S0[2]>>

Resolved3 == \A k \in 1..3 : ArgBits[k] \in {"0", "1"}

\* C5: get_state maps each of the 8 resolved patterns s2 s1 s0 to the state of the
\* table (010 T1, 110 T1I, 100 T2, 001 T3, 101 T5, 111 T4, 000 TWAIT, 011 STOPPED),
\* and a pattern with an unresolved bit to an unknown state that carries the raw bits.
C5_StateTable ==
    op \in {"get_state", "get_state_ts"} =>
        IF Resolved3
        THEN result = <<TableState(ArgBits)>>
        ELSE /\ Len(result) = 2
             /\ result[1] = (IF op = "get_state" THEN "UNKNOWN" ELSE "UNK")
             /\ result[2] = ArgBits

C5_Witness_Resolved == op = "get_state" /\ ArgBits = <<"1", "0", "1">> /\ result = <<"T5">>

\* C6 (as claimed): get_data_byte returns None, without raising, whenever one of
\* D7..D0 is anything other than '0' or '1'.
C6_IndeterminateOnAnyNonBinaryLine ==
    (op = "get_data_byte" /\ \E k \in 0..7 : strip(arg.D[k]) \notin {<<"0">>, <<"1">>})
        => result = [raised |-> FALSE, val |-> NoneInt]

\* C7: for every byte b, the lines D7..D0 carrying b (D7 most significant) decode to b.
C7_RoundTrip ==
    op = "encode_decode" => result = [raised |-> FALSE, val |-> Some(arg.byte)]

C7_Witness_B8 == op = "encode_decode" /\ arg.byte = 184 /\ result.val = Some(184)

-----------------------------------------------------------------------------
(* The SYNC rising-edge test of the three passes *)

\* a plausible slip: the previous value starts as '0' (as prev_int does in
\* find_int_edges.py), so that anything but a previous '1' counts as low
IsRisingEdge_LowUnlessHigh(sync, prev) == sync = <<"1">> /\ prev # <<"1">>

\* sync == '1' and prev_sync == '0'
IsRisingEdge(sync, prev) == sync = <<"1">> /\ prev = <<"0">>

-----------------------------------------------------------------------------
(* analyze_glitches(csv_file): start_time_us and end_time_us are None, so   *)
(* the rows are the rows of the file                                        *)

MaxRowsGlitch == 4

GlitchData == {EncodeByte(16), EncodeByte(32), Unresolved(16)}

\* every SYNC value with every data value while CP_D_EN is 0, and with CP_D_EN 1
\* over the data value 0x10
GlitchRows ==
    { MkRow(TimeText(0), sync, StateCells("T2").S2, StateCells("T2").S1, StateCells("T2").S0,
            dc[1], dc[2], Cell("0")) :
        sync \in {Cell("0"), Cell("1"), Cell("?")},
        dc \in (GlitchData \X {Cell("0")}) \cup {<<EncodeByte(16), Cell("1")>>} }

InitGlitch == /\ tool = "analyze_glitches"
              /\ pc = "loop"
              /\ err = ""
              /\ DecodeIdle
              /\ LoopStart /\ GlitchStart /\ ExecStart /\ StatesStart /\ HexStart /\ EdgesStart
              /\ max_instructions = 0 /\ start_us = 0 /\ end_us = 0

Raise(name) == /\ pc' = "error"
               /\ err' = name

\* state_data_values.count(val) for each distinct value
Counts(values) ==
    [v \in {values[k] : k \in 1..Len(values)} |->
        Cardinality({k \in 1..Len(values) : values[k] = v})]

\* a plausible slip: any change of CP_D_EN under a resolved SYNC is reported
CpDEnGlitch_AnyChange(cp_d_en, prev_cp, sync, prev) ==
    cp_d_en # prev_cp /\ sync # <<"?">>

\* a plausible slip: any change of CP_D_EN off a rising edge is reported
CpDEnGlitch_OffRisingEdge(cp_d_en, prev_cp, sync, prev) ==
    cp_d_en # prev_cp /\ ~(sync = <<"1">> /\ prev = <<"0">>)

\* cp_d_en != prev_cp_d_en and prev_sync == sync and sync != '?'
CpDEnGlitch(cp_d_en, prev_cp, sync, prev) ==
    cp_d_en # prev_cp /\ prev = sync /\ sync # <<"?">>

\* a plausible slip: one value seen twice counts as a glitch
WindowGlitch_ByLength(values) == Len(values) > 1

\* len(state_data_values) > 1 and len(set(state_data_values)) > 1
WindowGlitch(values) ==
    Len(values) > 1 /\ Cardinality({values[k] : k \in 1..Len(values)}) > 1

\* a plausible slip: the value of a transition sample is dropped with the window
Tracked_EdgeSampleDropped(values, edge, data) ==
    IF edge THEN <<>>
    ELSE IF data # NoneInt THEN Append(values, data[1]) ELSE values

\* state_data_values after the row: emptied at a transition, then the resolved
\* data value appended
Tracked(values, edge, data) ==
    LET kept == IF edge THEN <<>> ELSE values
    IN  IF data # NoneInt THEN Append(kept, data[1]) ELSE kept

\* one iteration of the for loop over the row r
GlitchStep(r) ==
    /\ tool = "analyze_glitches" /\ pc = "loop" /\ i < MaxRowsGlitch
    /\ i' = i + 1
    /\ row' = r
    /\ rows' = Append(rows, r)
    /\ UNCHANGED <<tool, hexVars, edgesVars, decodeVars, execVars, statesVars>>
    /\ LET time  == ParseFloat(r.Time)
           sync  == strip(r.SYNC)
           state == get_state(r)
           data  == get_data_byte(r)
           cp    == strip(r.CP_D_EN)
           edge  == IsRisingEdge(sync, prev_sync)
           hit   == edge /\ WindowGlitch(state_data_values)
       IN  IF time.raised \/ data.raised
           THEN /\ Raise("ValueError")
                /\ fired' = FALSE
                /\ UNCHANGED <<prev_sync, prev_state, prev_data, prev_cp_d_en,
                               current_state_start, state_data_values, glitch_count,
                               glitches, cp_glitches>>
           ELSE /\ UNCHANGED <<pc, err>>
                /\ fired' = edge
                /\ glitch_count' = IF hit THEN glitch_count + 1 ELSE glitch_count
                /\ glitches' =
                     IF hit
                     THEN Append(glitches,
                                 [num |-> glitch_count + 1, state |-> prev_state,
                                  counts |-> Counts(state_data_values),
                                  first |-> current_state_start, last |-> i])
                     ELSE glitches
                /\ current_state_start' = IF edge THEN i ELSE current_state_start
                /\ prev_state' = IF edge THEN state ELSE prev_state
                /\ state_data_values' = Tracked(state_data_values, edge, data.val)
                /\ cp_glitches' =
                     IF CpDEnGlitch(cp, prev_cp_d_en, sync, prev_sync)
                     THEN Append(cp_glitches,
                                 [line |-> i, old |-> prev_cp_d_en, new |-> cp,
                                  state |-> state, sync |-> sync])
                     ELSE cp_glitches
                /\ prev_sync' = sync
                /\ prev_data' = data.val
                /\ prev_cp_d_en' = cp

GlitchLoop == \E r \in GlitchRows : GlitchStep(r)

\* the rows are exhausted: the totals are printed and the pass returns
GlitchEnd ==
    /\ tool = "analyze_glitches" /\ pc = "loop"
    /\ pc' = "done"
    /\ UNCHANGED <<tool, hexVars, edgesVars, err, decodeVars, loopVars, glitchVars, execVars, statesVars>>

NextGlitch == GlitchLoop \/ GlitchEnd

SpecGlitch == InitGlitch /\ [][NextGlitch]_vars

-----------------------------------------------------------------------------
(* Claims about analyze_glitches, stated over the rows processed so far *)

SyncAt(k) == strip(rows[k].SYNC)
CpAt(k) == strip(rows[k].CP_D_EN)

\* the k-th row (1-based) and its predecessor carry SYNC '0' then '1'
EdgeAt(k) == k >= 2 /\ SyncAt(k - 1) = <<"0">> /\ SyncAt(k) = <<"1">>

\* a window starts at the first row and at every edge, and runs up to the row
\* before the next edge, or to the last row
WindowStarts == {k \in 1..Len(rows) : k = 1 \/ EdgeAt(k)}

WindowClosed(s) == \E k \in (s + 1)..Len(rows) : EdgeAt(k)

WindowRows(s) == {k \in s..Len(rows) : \A j \in (s + 1)..k : ~EdgeAt(j)}

WindowValues(s) == {get_data_byte(rows[k]).val : k \in WindowRows(s)} \ {NoneInt}

\* a bus-contention report for the window that starts at row s
Reported(s) == \E n \in 1..Len(glitches) : glitches[n].first = s - 1

\* C2 (as claimed): once the pass is over, a window has a bus-contention report if
\* and only if it holds two or more distinct resolved data values, the window still
\* open at the end of the stream included.
C2_ContentionReportedForEveryWindow ==
    pc = "done" =>
        \A s \in WindowStarts : Reported(s) <=> Cardinality(WindowValues(s)) >= 2

\* a CP_D_EN report at the k-th row
CpReported(k) == \E n \in 1..Len(cp_glitches) : cp_glitches[n].line = k - 1

CpChangedAt(k) == k >= 2 /\ CpAt(k) # CpAt(k - 1)

-----------------------------------------------------------------------------
(* trace_execution(csv_file, max_instructions) *)

MaxRowsExec == 8

DefaultMaxInstructions == 30

MaxInstructionChoices == {0, 1, DefaultMaxInstructions}

ExecData == {EncodeByte(184), EncodeByte(63), Unresolved(184)}

\* the data bus takes each value in T3, where the opcode is sampled, and holds
\* 0xB8 in the other states
ExecStateData == ({"T1I", "T1", "T2"} \X {EncodeByte(184)}) \cup ({"T3"} \X ExecData)

\* rows stamped 0 s; one idle row stamped 1 s, so that a capture can run backwards
\* in time; and one row whose timestamp float() rejects
ExecRows ==
    { MkRow(TimeText(0), sync, StateCells(sd[1]).S2, StateCells(sd[1]).S1,
            StateCells(sd[1]).S0, sd[2], Cell("0"), Cell("0")) :
        sync \in {Cell("0"), Cell("1"), Cell("?")},
        sd \in ExecStateData }
    \cup
    { MkRow(t, Cell("0"), StateCells("T2").S2, StateCells("T2").S1, StateCells("T2").S0,
            EncodeByte(184), Cell("0"), Cell("0")) : t \in {TimeText(1), EmptyText} }

InitExec == /\ tool = "trace_execution"
            /\ pc = "loop"
            /\ err = ""
            /\ DecodeIdle
            /\ LoopStart /\ GlitchStart /\ ExecStart /\ StatesStart /\ HexStart /\ EdgesStart
            /\ max_instructions \in MaxInstructionChoices
            /\ start_us = 0 /\ end_us = 0

\* a plausible slip: the instruction pending at a T1 is printed whether or not
\* its opcode was captured
Complete_IgnoringOpcode(instr) == instr.t1_line # NoneInt

\* current_instr['t1_line'] is not None and current_instr['t3_data'] is not None
Complete(instr) == instr.t1_line # NoneInt /\ instr.t3_data # NoneInt

\* a plausible slip: any cycle start arms the trace
Armed_OnAnyCycleStart(after, edge, state) ==
    after \/ (edge /\ state \in {<<"T1I">>, <<"T1">>})

\* after_t1i once "if state == 'T1I': after_t1i = True" has run inside the edge test
Armed(after, edge, state) == after \/ (edge /\ state = <<"T1I">>)

\* a plausible slip: the pass stops only once the limit is exceeded
LimitReached_Exceeded(count, limit) == count > limit

\* instr_num >= max_instructions
LimitReached(count, limit) == count >= limit

\* one iteration of the for loop over the row r
ExecStep(r) ==
    /\ tool = "trace_execution" /\ pc = "loop" /\ i < MaxRowsExec
    /\ i' = i + 1
    /\ row' = r
    /\ UNCHANGED <<tool, hexVars, edgesVars, decodeVars, glitchVars, statesVars, max_instructions, prev_state>>
    /\ LET time  == ParseFloat(r.Time)
           state == get_state(r)
           sync  == strip(r.SYNC)
           data  == get_data_byte(r)
           edge  == IsRisingEdge(sync, prev_sync)
           armed == Armed(after_t1i, edge, state)
           fetch == edge /\ armed /\ state = <<"T1">>
           print == fetch /\ Complete(current_instr)
           count == IF print THEN instr_num + 1 ELSE instr_num
       IN  IF time.raised \/ data.raised
           THEN /\ Raise("ValueError")
                /\ fired' = FALSE
                /\ UNCHANGED <<prev_sync, after_t1i, instr_num, current_instr,
                               emitted, t1i_lines, started, unordered>>
           ELSE /\ err' = err
                /\ fired' = edge
                /\ unordered' = (unordered \/ (row # NoRow /\ time.val < ParseFloat(row.Time).val))
                /\ after_t1i' = armed
                /\ t1i_lines' = IF edge /\ state = <<"T1I">> THEN t1i_lines \cup {i}
                                ELSE t1i_lines
                /\ instr_num' = count
                /\ emitted' =
                     IF print
                     THEN Append(emitted,
                                 [num |-> instr_num + 1,
                                  t1_line |-> current_instr.t1_line[1],
                                  opcode |-> current_instr.t3_data[1]])
                     ELSE emitted
                /\ current_instr' =
                     IF fetch
                     THEN [t1_line |-> Some(i), t1_data |-> data.val,
                           t3_line |-> NoneInt, t3_data |-> NoneInt]
                     ELSE IF edge /\ armed /\ state = <<"T3">>
                     THEN [current_instr EXCEPT !.t3_line = Some(i), !.t3_data = data.val]
                     ELSE current_instr
                /\ started' = IF fetch THEN started \cup {i} ELSE started
                /\ IF edge /\ armed /\ LimitReached(count, max_instructions)
                   THEN \* break: the assignment to prev_sync is skipped
                        pc' = "done" /\ prev_sync' = prev_sync
                   ELSE pc' = pc /\ prev_sync' = sync

ExecLoop == \E r \in ExecRows : ExecStep(r)

\* the rows are exhausted: the total is printed and the pass returns
ExecEnd ==
    /\ tool = "trace_execution" /\ pc = "loop"
    /\ pc' = "done"
    /\ UNCHANGED <<tool, hexVars, edgesVars, err, decodeVars, loopVars, glitchVars, execVars, statesVars>>

NextExec == ExecLoop \/ ExecEnd

SpecExec == InitExec /\ [][NextExec]_vars

-----------------------------------------------------------------------------
(* trace_states(csv_file, start_us, end_us) *)

MaxRowsStates == 4

CYCLE_TYPES ==
    (<<"0", "0">> :> <<"PCI">>) @@
    (<<"0", "1">> :> <<"PCR">>) @@
    (<<"1", "0">> :> <<"PCW">>) @@
    (<<"1", "1">> :> <<"PCC">>)

Digit(b) == IF b = 1 THEN "1" ELSE "0"

\* f"{(data >> 6) & 0x3:02b}"
CtBits(data) == LET v == (data \div 64) % 4 IN <<Digit(v \div 2), Digit(v % 2)>>

\* a plausible slip: the two low bits taken for D7 D6
CycleType_LowBits(state, data) ==
    IF state = <<"T2">> /\ data # NoneInt
    THEN CYCLE_TYPES[<<Digit((data[1] % 4) \div 2), Digit(data[1] % 2)>>]
    ELSE <<"?">>

\* cycle_type = "?", replaced in T2 with a resolved byte by the CYCLE_TYPES entry
CycleType(state, data) ==
    IF state = <<"T2">> /\ data # NoneInt
    THEN (IF CtBits(data[1]) \in DOMAIN CYCLE_TYPES THEN CYCLE_TYPES[CtBits(data[1])]
          ELSE <<"?", CtBits(data[1])>>)
    ELSE <<"?">>

\* a plausible slip: every transition opens a cycle
IsCycleStart_AnyState(state) == TRUE

\* a plausible slip: only T1 opens a cycle
IsCycleStart_T1Only(state) == state = <<"T1">>

\* state == 'T1' or state == 'T1I'
IsCycleStart(state) == state = <<"T1">> \/ state = <<"T1I">>

StartUsChoices == {TimeUs(0), TimeUs(1)}
EndUsChoices == {TimeUs(1), TimeUs(2)}

StatesTimes == {TimeText(0), TimeText(1), TimeText(2)}

NamedCells(name) == <<StateCells(name).S2, StateCells(name).S1, StateCells(name).S0>>

\* the states with the data values that matter in them: the cycle type is read
\* in T2, an unresolved byte is printed at any edge; and one unknown pattern
StatesStateData ==
    ({NamedCells("T1")} \X {EncodeByte(63), Unresolved(63)})
    \cup ({NamedCells("T1I")} \X {EncodeByte(63)})
    \cup ({NamedCells("T2")} \X {EncodeByte(63), EncodeByte(127), EncodeByte(191),
                                EncodeByte(255), Unresolved(63)})
    \cup ({<<Cell("0"), Cell("?"), Cell("0")>>} \X {EncodeByte(63)})

StatesRows ==
    { MkRow(t, sync, sd[1][1], sd[1][2], sd[1][3], sd[2], Cell("0"), Cell("0")) :
        t \in StatesTimes, sync \in {Cell("0"), Cell("1")}, sd \in StatesStateData }
    \cup
    { MkRow(t, Cell("?"), NamedCells("T1")[1], NamedCells("T1")[2], NamedCells("T1")[3],
            EncodeByte(63), Cell("0"), Cell("0")) : t \in StatesTimes }

InitStates == /\ tool = "trace_states"
              /\ pc = "loop"
              /\ err = ""
              /\ DecodeIdle
              /\ LoopStart /\ GlitchStart /\ ExecStart /\ StatesStart /\ HexStart /\ EdgesStart
              /\ max_instructions = 0
              /\ start_us \in StartUsChoices
              /\ end_us \in EndUsChoices

\* one iteration of the for loop over the row r
StatesStep(r) ==
    /\ tool = "trace_states" /\ pc = "loop" /\ i < MaxRowsStates
    /\ i' = i + 1
    /\ row' = r
    /\ UNCHANGED <<tool, hexVars, edgesVars, decodeVars, glitchVars, execVars, start_us, end_us>>
    /\ LET time  == ParseFloat(r.Time)
           state == get_state_ts(r)
           sync  == strip(r.SYNC)
           data  == get_data_byte(r)
           edge  == IsRisingEdge(sync, prev_sync)
           begin == edge /\ IsCycleStart(state)
           \* the row and its predecessor in the file carry SYNC '0' then '1'
           rose  == row # NoRow /\ strip(row.SYNC) = <<"0">> /\ sync = <<"1">>
       IN  IF time.raised
           THEN /\ Raise("ValueError")
                /\ fired' = FALSE
                /\ UNCHANGED <<prev_sync, prev_state, state_num, cycle_num, out,
                               cycle_of, starts>>
           ELSE IF TimeUs(time.val) < start_us
           THEN \* continue, after prev_sync = row[' SYNC'].strip()
                /\ prev_sync' = sync
                /\ fired' = FALSE
                /\ UNCHANGED <<pc, err, prev_state, state_num, cycle_num, out, cycle_of,
                               starts>>
           ELSE IF TimeUs(time.val) > end_us
           THEN \* break
                /\ pc' = "done"
                /\ fired' = FALSE
                /\ UNCHANGED <<err, prev_sync, prev_state, state_num, cycle_num, out,
                               cycle_of, starts>>
           ELSE IF data.raised
           THEN /\ Raise("ValueError")
                /\ fired' = FALSE
                /\ UNCHANGED <<prev_sync, prev_state, state_num, cycle_num, out,
                               cycle_of, starts>>
           ELSE /\ fired' = edge
                /\ state_num' = IF edge THEN state_num + 1 ELSE state_num
                /\ cycle_num' = IF begin THEN cycle_num + 1 ELSE cycle_num
                /\ cycle_of' = Append(cycle_of, cycle_num')
                /\ starts' = Append(starts, rose /\ state \in {<<"T1">>, <<"T1I">>})
                /\ IF edge /\ data.val = NoneInt
                   THEN \* f"Data=0x{data:02X}" with data None raises TypeError
                        /\ Raise("TypeError")
                        /\ UNCHANGED <<out, prev_sync, prev_state>>
                   ELSE /\ UNCHANGED <<pc, err>>
                        /\ out' = IF edge
                                  THEN [state_num |-> state_num + 1, cycle_num |-> cycle_num',
                                        line |-> i, state |-> state, data |-> data.val,
                                        cycle_type |-> CycleType(state, data.val)]
                                  ELSE out
                        /\ prev_sync' = sync
                        /\ prev_state' = state

StatesLoop == \E r \in StatesRows : StatesStep(r)

\* the rows are exhausted: the totals are printed and the pass returns
StatesEnd ==
    /\ tool = "trace_states" /\ pc = "loop"
    /\ pc' = "done"
    /\ UNCHANGED <<tool, hexVars, edgesVars, err, decodeVars, loopVars, glitchVars, execVars, statesVars>>

NextStates == StatesLoop \/ StatesEnd

SpecStates == InitStates /\ [][NextStates]_vars

-----------------------------------------------------------------------------
(* hex_to_mem.py: parse_intel_hex(hex_file), then the memory file is written *)

MaxHexLines == 4

HexDigits == <<"0", "1", "2", "3", "4", "5", "6", "7", "8", "9", "A", "B", "C", "D", "E", "F">>

HexDigit(n) == HexDigits[n + 1]

\* f"{n:02X}" for a byte n
Hex2(n) == <<HexDigit(n \div 16), HexDigit(n % 16)>>

Hex4(n) == Hex2(n \div 256) \o Hex2(n % 256)

RECURSIVE HexBytes(_)
HexBytes(data) == IF data = <<>> THEN <<>> ELSE Hex2(Head(data)) \o HexBytes(Tail(data))

RECURSIVE SumSeq(_)
SumSeq(q) == IF q = <<>> THEN 0 ELSE Head(q) + SumSeq(Tail(q))

\* the text line of a record of an Intel HEX file: ':', byte count, address, record
\* type, data and checksum in hexadecimal; a record of type -1 stands for a line
\* that is no record
HexLine(rec) ==
    IF rec.type = -1 THEN <<"#">>
    ELSE LET sum == rec.count + (rec.addr \div 256) + (rec.addr % 256) + rec.type
                    + SumSeq(rec.data)
         IN  <<":">> \o Hex2(rec.count) \o Hex4(rec.addr) \o Hex2(rec.type)
             \o HexBytes(rec.data) \o Hex2((256 - (sum % 256)) % 256) \o <<" ">>

\* line[a:b]
Slice(line, a, b) ==
    IF a >= Len(line) \/ b <= a THEN <<>>
    ELSE SubSeq(line, a + 1, IF b < Len(line) THEN b ELSE Len(line))

RECURSIVE HexValue(_)
HexValue(digits) ==
    IF digits = <<>> THEN 0
    ELSE 16 * HexValue(SubSeq(digits, 1, Len(digits) - 1))
         + (CHOOSE n \in 0..15 : HexDigits[n + 1] = digits[Len(digits)])

\* int(text, 16) on the characters the model draws: a non-empty string of
\* hexadecimal digits is its value, anything else raises ValueError
IntBase16(digits) ==
    IF digits # <<>> /\ \A k \in 1..Len(digits) : \E n \in 1..16 : HexDigits[n] = digits[k]
    THEN [raised |-> FALSE, val |-> HexValue(digits)]
    ELSE [raised |-> TRUE, val |-> 0]

\* a plausible slip: the end-of-file record does not end the parse
IsEndOfFile_Never(record_type) == FALSE

\* record_type == 0x01
IsEndOfFile(record_type) == record_type = 1

\* memory[address] = byte_val
DictSet(dict, key, val) == [a \in DOMAIN dict \cup {key} |-> IF a = key THEN val ELSE dict[a]]

\* for i in range(byte_count): from the k-th byte on, memory[address + i] = byte_val
\* and max_addr = max(max_addr, address + i)
RECURSIVE StoreBytes(_, _, _, _, _, _)
StoreBytes(mem, top, line, address, byte_count, k) ==
    IF k >= byte_count THEN [raised |-> FALSE, memory |-> mem, max_addr |-> top]
    ELSE LET byte_val == IntBase16(Slice(line, 9 + k * 2, 9 + k * 2 + 2))
         IN  IF byte_val.raised THEN [raised |-> TRUE, memory |-> mem, max_addr |-> top]
             ELSE StoreBytes(DictSet(mem, address + k, byte_val.val),
                             IF address + k > top THEN address + k ELSE top,
                             line, address, byte_count, k + 1)

HexData == {<<171>>, <<171, 12>>}

\* the records of a file: data records at two addresses, a data record without data, the end-of-file
\* record, an extended-address record, and a line that is no record
HexRecords ==
    { [count |-> Len(d), addr |-> a, type |-> 0, data |-> d] : a \in {0, 2}, d \in HexData }
    \cup { [count |-> 1, addr |-> 2, type |-> 0, data |-> <<12>>],
           [count |-> 0, addr |-> 3, type |-> 0, data |-> <<>>],
           [count |-> 0, addr |-> 0, type |-> 1, data |-> <<>>],
           [count |-> 2, addr |-> 0, type |-> 4, data |-> <<0, 1>>],
           [count |-> 0, addr |-> 0, type |-> -1, data |-> <<>>] }

InitHex == /\ tool = "hex_to_mem"
           /\ pc = "loop"
           /\ err = ""
           /\ DecodeIdle
           /\ LoopStart /\ GlitchStart /\ ExecStart /\ StatesStart /\ EdgesStart
           /\ max_instructions = 0 /\ start_us = 0 /\ end_us = 0
           /\ hex_records \in UNION {[1..n -> HexRecords] : n \in 0..MaxHexLines}
           /\ hex_lines = <<>> /\ memory = EmptyDict /\ max_addr = 0 /\ mem_out = <<>>

\* one iteration of "for line in f"; hex_records is the file, hex_lines the lines
\* read so far
HexRead ==
    /\ tool = "hex_to_mem" /\ pc = "loop" /\ Len(hex_lines) < Len(hex_records)
    /\ hex_lines' = Append(hex_lines, HexLine(hex_records[Len(hex_lines) + 1]))
    /\ UNCHANGED <<tool, hex_records, mem_out, edgesVars, decodeVars, loopVars, glitchVars,
                   execVars, statesVars>>
    /\ LET line == strip(HexLine(hex_records[Len(hex_lines) + 1]))
           byte_count  == IntBase16(Slice(line, 1, 3))
           address     == IntBase16(Slice(line, 3, 7))
           record_type == IntBase16(Slice(line, 7, 9))
           stored == StoreBytes(memory, max_addr, line, address.val, byte_count.val, 0)
       IN  IF line = <<>> \/ Head(line) # ":"
           THEN UNCHANGED <<pc, err, memory, max_addr>>
           ELSE IF byte_count.raised \/ address.raised \/ record_type.raised
           THEN Raise("ValueError") /\ UNCHANGED <<memory, max_addr>>
           ELSE IF record_type.val = 0
           THEN /\ memory' = stored.memory
                /\ max_addr' = stored.max_addr
                /\ IF stored.raised THEN Raise("ValueError") ELSE UNCHANGED <<pc, err>>
           ELSE IF IsEndOfFile(record_type.val)
           THEN pc' = "parsed" /\ UNCHANGED <<err, memory, max_addr>>
           ELSE UNCHANGED <<pc, err, memory, max_addr>>

\* the file is exhausted
HexEnd ==
    /\ tool = "hex_to_mem" /\ pc = "loop" /\ Len(hex_lines) = Len(hex_records)
    /\ pc' = "parsed"
    /\ UNCHANGED <<tool, err, hexVars, edgesVars, decodeVars, loopVars, glitchVars,
                   execVars, statesVars>>

\* for addr in range(max_addr + 1): the byte of memory, or 00
HexWrite ==
    /\ tool = "hex_to_mem" /\ pc = "parsed"
    /\ pc' = "done"
    /\ mem_out' = [n \in 1..(max_addr + 1) |->
                      IF (n - 1) \in DOMAIN memory THEN Hex2(memory[n - 1]) ELSE <<"0", "0">>]
    /\ UNCHANGED <<tool, err, hex_lines, hex_records, memory, max_addr, edgesVars,
                   decodeVars, loopVars, glitchVars, execVars, statesVars>>

NextHex == HexRead \/ HexEnd \/ HexWrite

SpecHex == InitHex /\ [][NextHex]_vars

-----------------------------------------------------------------------------
(* find_int_edges.py: the loop over the data rows *)

MaxRowsEdges == 4

\* every INT value at two timestamps, and one row whose timestamp float() rejects
EdgesRows ==
    { MkRow(t, Cell("0"), Cell("0"), Cell("0"), Cell("0"), EncodeByte(0), Cell("0"), int) :
        t \in {TimeText(0), TimeText(1)}, int \in {Cell("0"), Cell("1"), Cell("?")} }
    \cup
    { MkRow(EmptyText, Cell("0"), Cell("0"), Cell("0"), Cell("0"), EncodeByte(0), Cell("0"),
            Cell("1")) }

InitEdges == /\ tool = "find_int_edges"
             /\ pc = "loop"
             /\ err = ""
             /\ DecodeIdle
             /\ LoopStart /\ GlitchStart /\ ExecStart /\ StatesStart /\ HexStart /\ EdgesStart
             /\ max_instructions = 0 /\ start_us = 0 /\ end_us = 0

\* a plausible slip: an edge wherever INT is '1' and was not '1' in the row before
IntRisingEdge_NotHighBefore(int_val, prev) == int_val = <<"1">> /\ prev # <<"1">>

\* int_val == '1' and prev_int == '0'
IntRisingEdge(int_val, prev) == int_val = <<"1">> /\ prev = <<"0">>

\* one iteration of "for row in reader" over the row r; edge_rows keeps the rows read
EdgesStep(r) ==
    /\ tool = "find_int_edges" /\ pc = "loop" /\ i < MaxRowsEdges
    /\ i' = i + 1
    /\ row' = r
    /\ edge_rows' = Append(edge_rows, r)
    /\ line_num' = line_num + 1
    /\ UNCHANGED <<tool, hexVars, decodeVars, glitchVars, execVars, statesVars,
                   prev_sync, prev_state>>
    /\ LET int_val == strip(r.INT)
           \* the timestamp text carries no blanks for strip() to remove
           time    == ParseFloat(r.Time)
       IN  IF time.raised
           THEN /\ Raise("ValueError")
                /\ fired' = FALSE
                /\ UNCHANGED <<prev_int, int_high_times>>
           ELSE /\ UNCHANGED <<pc, err>>
                /\ fired' = IntRisingEdge(int_val, prev_int)
                /\ int_high_times' =
                     IF IntRisingEdge(int_val, prev_int)
                     THEN Append(int_high_times, [line |-> line_num + 1, time |-> time.val])
                     ELSE int_high_times
                /\ prev_int' = int_val

EdgesLoop == \E r \in EdgesRows : EdgesStep(r)

\* the rows are exhausted: the edges are printed
EdgesEnd ==
    /\ tool = "find_int_edges" /\ pc = "loop"
    /\ pc' = "done"
    /\ UNCHANGED <<tool, err, hexVars, edgesVars, decodeVars, loopVars, glitchVars,
                   execVars, statesVars>>

NextEdges == EdgesLoop \/ EdgesEnd

SpecEdges == InitEdges /\ [][NextEdges]_vars

-----------------------------------------------------------------------------
(* The three passes together *)

InitPasses == InitGlitch \/ InitExec \/ InitStates

NextPasses == NextGlitch \/ NextExec \/ NextStates

SpecPasses == InitPasses /\ [][NextPasses]_vars

Init == InitDecode \/ InitPasses \/ InitHex \/ InitEdges

Next == NextDecode \/ NextPasses \/ NextHex \/ NextEdges

Spec == Init /\ [][Next]_vars

-----------------------------------------------------------------------------
(* Claims about the passes *)

\* the iteration over row r reached the edge test: float() and the data decoder
\* raised nothing and, in trace_states, r lies inside the time window
ReachedEdgeTest(r) ==
    /\ ~ParseFloat(r.Time).raised
    /\ ~get_data_byte(r).raised
    /\ tool = "trace_states" =>
          /\ TimeUs(ParseFloat(r.Time).val) >= start_us
          /\ TimeUs(ParseFloat(r.Time).val) <= end_us

\* C1: in each pass the edge test fires at a row if and only if that row has a
\* predecessor in the capture, the predecessor's SYNC is '0' and the row's SYNC is
\* '1'; so never at the first row and never for 1->0, '?'->1, 0->'?' or equal values.
C1_FiresExactlyOnRisingEdges ==
    [][ i' = i + 1 =>
          (fired' <=> /\ ReachedEdgeTest(row')
                      /\ row # NoRow
                      /\ strip(row.SYNC) = <<"0">>
                      /\ strip(row'.SYNC) = <<"1">>) ]_vars

\* SYNC 0, 0, 1: the edge fires at the third row of analyze_glitches
C1_Witness_EdgeAfterTwoLows ==
    /\ tool = "analyze_glitches" /\ Len(rows) = 3
    /\ SyncAt(1) = <<"0">> /\ SyncAt(2) = <<"0">> /\ SyncAt(3) = <<"1">>
    /\ fired

\* C4 (as claimed): at the end of a pass with the default instruction limit, every
\* instruction started by a T1 transition while armed has been emitted.
C4_StartedInstructionsEmitted ==
    (tool = "trace_execution" /\ pc = "done" /\ max_instructions = DefaultMaxInstructions)
        => \A l \in started : \E n \in 1..Len(emitted) : emitted[n].t1_line = l

\* C8 (as claimed): a SYNC transition of trace_states whose sample has an
\* indeterminate data byte is reported with that marker and raises nothing.
C8_IndeterminateByteReported ==
    (tool = "trace_states" /\ fired /\ get_data_byte(row).val = NoneInt)
        => (pc # "error" /\ out # NoRow /\ out.line = i - 1 /\ out.data = NoneInt)

\* C9 (as claimed): every processed sample of trace_states belongs to a cycle, the
\* samples before the first cycle-start transition included.
C9_EverySampleInACycle ==
    \A k \in 1..Len(cycle_of) : cycle_of[k] >= 1

\* C9 (amended): every processed sample belongs to the cycle opened by the latest
\* cycle-start transition at or before it: its cycle number is the number of
\* cycle-start transitions among the processed samples up to it, and a sample before
\* the first of them belongs to no cycle (number 0).
C9_CyclesFollowCycleStarts ==
    \A k \in 1..Len(cycle_of) :
        cycle_of[k] = Cardinality({j \in 1..k : starts[j]})

\* a sample before the first cycle, then two cycles
C9_Witness_TwoCycles ==
    /\ Len(cycle_of) = 4
    /\ cycle_of[1] = 0 /\ cycle_of[2] = 1 /\ cycle_of[3] = 1 /\ cycle_of[4] = 2

\* C10 (as claimed): a pass that has processed a timestamp smaller than the one
\* before it does not run to completion.
C10_OutOfOrderDoesNotComplete ==
    (tool = "trace_execution" /\ unordered) => pc # "done"

-----------------------------------------------------------------------------
(* Claims about hex_to_mem, stated over the records the lines were written from *)

\* the k-th record is a data record read before the first end-of-file record
EffectiveData(k) ==
    /\ hex_records[k].type = 0
    /\ \A j \in 1..(k - 1) : hex_records[j].type # 1

Covers(k, a) ==
    /\ EffectiveData(k)
    /\ hex_records[k].addr <= a
    /\ a < hex_records[k].addr + hex_records[k].count

CoveredAddrs ==
    {a \in UNION {hex_records[k].addr..(hex_records[k].addr + hex_records[k].count - 1) :
                     k \in 1..Len(hex_records)} :
        \E k \in 1..Len(hex_records) : Covers(k, a)}

\* the highest covered address; 0 when no address is covered
HighestCovered == IF CoveredAddrs = {} THEN 0
                  ELSE CHOOSE a \in CoveredAddrs : \A b \in CoveredAddrs : b <= a

LastCovering(a) ==
    CHOOSE k \in 1..Len(hex_records) :
        Covers(k, a) /\ \A j \in (k + 1)..Len(hex_records) : ~Covers(j, a)

\* C11: the memory file has one line for each address 0..max_addr, max_addr the
\* highest address covered by a data record read before the first end-of-file
\* record (0 if there is none); the line of a covered address is the byte of the
\* last such record that covers it, the line of any other address is 00.
C11_MemoryImage ==
    (tool = "hex_to_mem" /\ pc = "done") =>
        /\ Len(mem_out) = HighestCovered + 1
        /\ \A a \in 0..HighestCovered :
              mem_out[a + 1] =
                 IF a \in CoveredAddrs
                 THEN Hex2(hex_records[LastCovering(a)].data[a - hex_records[LastCovering(a)].addr + 1])
                 ELSE <<"0", "0">>

\* 0x0C at address 2, overwritten by 0xAB, then an end-of-file record and a data
\* record after it: the file is 00, 00, AB
C11_Witness_GapOverwriteAfterEof ==
    /\ tool = "hex_to_mem" /\ pc = "done" /\ Len(hex_records) = 4 /\ Len(hex_lines) = 3
    /\ hex_records[1] = [count |-> 1, addr |-> 2, type |-> 0, data |-> <<12>>]
    /\ hex_records[2] = [count |-> 1, addr |-> 2, type |-> 0, data |-> <<171>>]
    /\ hex_records[3].type = 1
    /\ hex_records[4] = [count |-> 2, addr |-> 2, type |-> 0, data |-> <<171, 12>>]
    /\ mem_out = << <<"0", "0">>, <<"0", "0">>, <<"A", "B">> >>

-----------------------------------------------------------------------------
(* Claims about the opcode sample and the armed flag of trace_execution *)

\* C12: the opcode of a pending instruction, once set by a T3 transition, is not
\* changed before the next T1 transition, and no opcode is recorded while no
\* instruction is pending.
C12_OpcodeSetByFirstT3 ==
    [][(tool = "trace_execution" /\ current_instr'.t1_line = current_instr.t1_line) =>
          /\ current_instr.t3_data # NoneInt => current_instr'.t3_data = current_instr.t3_data
          /\ current_instr.t1_line = NoneInt => current_instr'.t3_data = NoneInt]_vars

\* C13: after_t1i starts false, becomes true only at a SYNC 0->1 transition whose
\* state is T1I, and never returns to false; while it is false no instruction has
\* been started, recorded or emitted.
C13_ArmedOnceAtT1I ==
    /\ (tool = "trace_execution" => ~after_t1i)
    /\ []((tool = "trace_execution" /\ ~after_t1i) =>
            /\ started = {} /\ emitted = <<>> /\ instr_num = 0
            /\ current_instr = NoInstr)
    /\ [][tool = "trace_execution" =>
            /\ after_t1i => after_t1i'
            /\ (~after_t1i /\ after_t1i') =>
                  /\ i' = i + 1
                  /\ strip(row'.SYNC) = <<"1">> /\ prev_sync = <<"0">>
                  /\ StateBits(row') = <<"1", "1", "0">>]_vars

\* armed at the fourth row or later, with an instruction started afterwards
C13_Witness_ArmedLate ==
    /\ tool = "trace_execution" /\ after_t1i /\ started # {}
    /\ \A l \in t1i_lines : l >= 3

-----------------------------------------------------------------------------
(* Claims about the cycle counter and the cycle type of trace_states *)

\* the step reads a row inside the time window whose SYNC is '1' after a row whose
\* SYNC is '0' and whose state bits are those of T1 or T1I
CycleStartStep ==
    /\ i' = i + 1
    /\ ~ParseFloat(row'.Time).raised /\ ~get_data_byte(row').raised
    /\ TimeUs(ParseFloat(row'.Time).val) >= start_us
    /\ TimeUs(ParseFloat(row'.Time).val) <= end_us
    /\ row # NoRow /\ strip(row.SYNC) = <<"0">> /\ strip(row'.SYNC) = <<"1">>
    /\ StateBits(row') \in {<<"0", "1", "0">>, <<"1", "1", "0">>}

\* C14: cycle_num increases by exactly one at each in-window SYNC transition whose
\* state is T1 or T1I and is unchanged by every other sample; it equals the number
\* of cycle-start transitions seen and never exceeds state_num.
C14_CycleNumCountsCycleStarts ==
    /\ [](tool = "trace_states" =>
            /\ cycle_num = Cardinality({j \in 1..Len(starts) : starts[j]})
            /\ cycle_num <= state_num)
    /\ [][tool = "trace_states" =>
            cycle_num' = IF CycleStartStep THEN cycle_num + 1 ELSE cycle_num]_vars

\* a T1 or T1I transition and then a transition in another state
C14_Witness_StartThenOther ==
    /\ tool = "trace_states" /\ i = 4 /\ cycle_num = 1 /\ state_num = 2
    /\ StateBits(row) = <<"1", "0", "0">>

\* the cycle type named by the cells of D7 and D6
TypeOfTopBits(d7, d6) ==
    IF d7 = <<"0">> /\ d6 = <<"0">> THEN <<"PCI">>
    ELSE IF d7 = <<"0">> /\ d6 = <<"1">> THEN <<"PCR">>
    ELSE IF d7 = <<"1">> /\ d6 = <<"0">> THEN <<"PCW">>
    ELSE <<"PCC">>

DataResolved(r) == \A k \in 0..7 : strip(r.D[k]) \in {<<"0">>, <<"1">>}

\* C15: a line is printed only at a SYNC 0->1 transition, and its cycle type is the
\* CYCLE_TYPES entry for D7 D6 (00 PCI, 01 PCR, 10 PCW, 11 PCC) when the state is T2
\* and the data byte is resolved, and "?" in every other case.
C15_CycleTypeFromTopBitsInT2 ==
    /\ []((tool = "trace_states" /\ out # NoRow /\ out.line = i - 1) =>
            out.cycle_type =
               IF StateBits(row) = <<"1", "0", "0">> /\ DataResolved(row)
               THEN TypeOfTopBits(strip(row.D[7]), strip(row.D[6]))
               ELSE <<"?">>)
    /\ [][(tool = "trace_states" /\ out' # out) =>
            /\ out'.line = i
            /\ row # NoRow /\ strip(row.SYNC) = <<"0">> /\ strip(row'.SYNC) = <<"1">>]_vars

\* a T2 transition with data 0xBF: the type is PCW
C15_Witness_PCW ==
    /\ tool = "trace_states" /\ out # NoRow /\ out.line = i - 1
    /\ out.state = <<"T2">> /\ out.data = Some(191) /\ out.cycle_type = <<"PCW">>

-----------------------------------------------------------------------------
(* Claims about the CP_D_EN reports and the data windows of analyze_glitches *)

\* C16: no CP_D_EN glitch is reported at a sample that is a SYNC 0->1 transition,
\* whatever CP_D_EN does there, and none at the first sample.
C16_NoCpReportAtEdgeOrFirstSample ==
    tool = "analyze_glitches" =>
        \A k \in 1..Len(rows) : (k = 1 \/ EdgeAt(k)) => ~CpReported(k)

\* CP_D_EN is 1 in the first sample and changes at a SYNC 0->1 transition
C16_Witness_ChangeAtEdge ==
    /\ tool = "analyze_glitches" /\ Len(rows) >= 3
    /\ CpAt(1) = <<"1">> /\ ~CpReported(1)
    /\ EdgeAt(3) /\ CpChangedAt(3) /\ ~CpReported(3)

\* the resolved data values of the rows a..b (1-based), in row order
RECURSIVE ResolvedValues(_, _)
ResolvedValues(a, b) ==
    IF b < a THEN <<>>
    ELSE LET byte == get_data_byte(rows[b]).val
         IN  IF byte = NoneInt THEN ResolvedValues(a, b - 1)
             ELSE Append(ResolvedValues(a, b - 1), byte[1])

\* the row that opened the window still open: the latest transition, or the first row
OpenWindowStart == CHOOSE s \in WindowStarts : \A t \in WindowStarts : t <= s

\* C17: every resolved data value is counted in exactly one window. The values
\* tracked are those of the rows from the latest SYNC 0->1 transition (or from the
\* first row) on, the transition row included; a report made at a transition counts
\* the values of the rows from the window's first row up to the row before that
\* transition; and the window before the first transition, and only that one, is
\* reported with no state name.
C17_EachValueInOneWindow ==
    (tool = "analyze_glitches" /\ rows # <<>>) =>
        /\ state_data_values = ResolvedValues(OpenWindowStart, Len(rows))
        /\ \A n \in 1..Len(glitches) :
              LET g == glitches[n]
              IN  /\ (g.first + 1) \in WindowStarts
                  /\ EdgeAt(g.last + 1)
                  /\ \A k \in (g.first + 2)..g.last : ~EdgeAt(k)
                  /\ g.counts = Counts(ResolvedValues(g.first + 1, g.last))
                  /\ (g.state = NoneStr) <=> (g.first = 0)

\* 0x10 and 0x20 before the first transition, 0x10 again at the transition: the
\* report has no state name and counts 0x10 once, the new window holds 0x10
C17_Witness_FirstWindow ==
    /\ tool = "analyze_glitches" /\ Len(rows) = 3 /\ Len(glitches) = 1
    /\ EdgeAt(3) /\ get_data_byte(rows[3]).val = Some(16)
    /\ glitches[1].state = NoneStr /\ glitches[1].first = 0 /\ glitches[1].last = 2
    /\ glitches[1].counts = (16 :> 1) @@ (32 :> 1)
    /\ state_data_values = <<16>>

-----------------------------------------------------------------------------
(* Claims about the instruction limit of trace_execution *)

\* C18 (as claimed): the number of emitted instructions never exceeds
\* max_instructions, and once it has reached max_instructions no further sample is
\* processed.
C18_NoSampleOnceLimitReached ==
    /\ [](tool = "trace_execution" =>
            (Len(emitted) = instr_num /\ instr_num <= max_instructions))
    /\ [][(tool = "trace_execution" /\ instr_num = max_instructions) => i' = i]_vars

\* C18 (amended): the number of emitted instructions never exceeds max_instructions;
\* the pass ends at the first SYNC 0->1 transition, seen once armed, at which the
\* number has reached max_instructions; and with max_instructions >= 1 no sample is
\* processed once the number has reached it.
C18_StopsAtArmedTransitionOnceLimitReached ==
    /\ [](tool = "trace_execution" =>
            (Len(emitted) = instr_num /\ instr_num <= max_instructions))
    /\ [][(/\ tool = "trace_execution" /\ i' = i + 1 /\ pc' # "error"
           /\ prev_sync = <<"0">> /\ strip(row'.SYNC) = <<"1">>
           /\ after_t1i' /\ instr_num' = max_instructions) => pc' = "done"]_vars
    /\ [][(/\ tool = "trace_execution" /\ max_instructions >= 1
           /\ instr_num = max_instructions) => i' = i]_vars

\* the pass ended by the limit of one instruction
C18_Witness_StoppedAtOne ==
    /\ tool = "trace_execution" /\ max_instructions = 1
    /\ instr_num = 1 /\ Len(emitted) = 1 /\ pc = "done"

-----------------------------------------------------------------------------
(* Claims about the inline decoders of check_int_timing.py *)

\* C19: for every resolved pattern s2 s1 s0 the outer and the inner inline decoder
\* return the state name of the shared STATES table, and the same name as each other.
C19_InlineDecodersMatchTable ==
    (tool = "decode" /\ op = "inline_decode" /\ pc = "returned"
     /\ \A k \in 1..3 : StateBits(arg)[k] \in {"0", "1"}) =>
        /\ result.outer = STATES[StateBits(arg)]
        /\ result.inner = STATES[StateBits(arg)]
        /\ result.outer = result.inner

-----------------------------------------------------------------------------
(* Claims about find_int_edges, stated over the rows read so far *)

IntAt(k) == strip(edge_rows[k].INT)

\* the k-th data row has INT '1' and the row before it INT '0'; the first data row
\* counts as preceded by '0'
IntRoseAt(k) == IntAt(k) = <<"1">> /\ (k = 1 \/ IntAt(k - 1) = <<"0">>)

\* the edges of the first k data rows, in row order, each with the file line of its
\* row and its time
RECURSIVE ExpectedEdges(_)
ExpectedEdges(k) ==
    IF k = 0 THEN <<>>
    ELSE IF IntRoseAt(k)
    THEN Append(ExpectedEdges(k - 1),
                [line |-> FirstLineNum + k, time |-> ParseFloat(edge_rows[k].Time).val])
    ELSE ExpectedEdges(k - 1)

\* C20: the recorded edges are, in row order, exactly the data rows whose INT is '1'
\* and whose preceding row's INT is '0', the first data row being treated as
\* preceded by '0'.
C20_OneEdgePerRise ==
    (tool = "find_int_edges" /\ pc # "error") =>
        int_high_times = ExpectedEdges(Len(edge_rows))

\* INT '1' in the first row, then '0', '?', '1': one edge, at the first row
C20_Witness_FirstRowHighThenUnknown ==
    /\ tool = "find_int_edges" /\ pc = "done" /\ Len(edge_rows) = 4
    /\ IntAt(1) = <<"1">> /\ IntAt(2) = <<"0">> /\ IntAt(3) = <<"?">> /\ IntAt(4) = <<"1">>
    /\ Len(int_high_times) = 1 /\ int_high_times[1].line = 7

====
